---- MODULE Spec2Model ----
(***************************************************************************)
(* Model of yt_dlp_plugins/extractor/audiothek_plugin.py.                  *)
(*                                                                         *)
(* Two extractions are modelled:                                           *)
(*   - ArdAudioThekPlaylistIE._real_extract: the pagination loop of        *)
(*     _get_entries_via_nextjs_initial_data_and_and_graph_ql followed by   *)
(*     _iter_entry_dict_from_paths (specification Spec);                   *)
(*   - _get_info_dict_for_ld_data_dict, the pure function that turns a     *)
(*     linked-data dictionary into an info dict (specification             *)
(*     SpecEpisode).                                                       *)
(*                                                                         *)
(* Strings that the code takes apart are modelled by their parts: a URL or *)
(* path is a record (scheme, host, path segments, trailing slash), an      *)
(* ISO-8601 instant is a record of digit sequences.                        *)
(***************************************************************************)
EXTENDS Integers, Sequences, FiniteSets, TLC

\* ------------------------------------------------------------------ bounds
\* Largest number of nodes embedded in the initial-state payload.
MaxEmbedded == 2
\* Largest number of nodes in one query-API page.
MaxPage == 2
\* Largest numberOfElements the initial-state payload declares.
MaxTotal == 4

\* ----------------------------------------------------------------- strings
\* Python's None where a string is expected, and where a dict is expected.
None == "None"
NoneDict == [type |-> "None"]

SiteHost == "www.ardaudiothek.de"

\* A site-relative path "/s1/s2/.../" (slash: whether it ends in "/").
RelPath(segs, slash) ==
    [scheme |-> "", host |-> "", segs |-> segs, slash |-> slash]

\* An absolute URL "scheme://host/s1/s2/.../".
AbsUrl(scheme, host, segs, slash) ==
    [scheme |-> scheme, host |-> host, segs |-> segs, slash |-> slash]

\* Segments of the form "urn:ard:episode:<id>" with a non-empty <id>.
UrnEpisodeId ==
    [s \in {"urn:ard:episode:a", "urn:ard:episode:b", "urn:ard:episode:c"} |->
        CASE s = "urn:ard:episode:a" -> "a"
          [] s = "urn:ard:episode:b" -> "b"
          [] s = "urn:ard:episode:c" -> "c"]

\* Segments made of decimal digits only (\d+).
DigitSegs == {"36", "102", "103"}

\* The paths a listing node may carry.
PathA == RelPath(<<"episode", "urn:ard:episode:a">>, TRUE)
PathLegacyOther == RelPath(<<"episode", "other", "folge", "102">>, TRUE)
PathUrnLegacy == RelPath(<<"episode", "urn:ard:episode:c", "103">>, TRUE)

PathPool == {PathA, PathLegacyOther, PathUrnLegacy}

RECURSIVE SeqsUpTo(_, _)
\* All sequences over S of length 0..n.
SeqsUpTo(S, n) ==
    IF n = 0 THEN {<<>>}
    ELSE LET shorter == SeqsUpTo(S, n - 1)
         IN  shorter \cup {Append(q, x) : q \in {r \in shorter : Len(r) = n - 1}, x \in S}

\* The listing page that is extracted.
PlaylistUrl == AbsUrl("https", SiteHost, <<"sendung", "maus", "36">>, TRUE)

\* The text of the page's first <h1>, character by character.
PageHeading == <<" ", "M", "a", "u", "s", " ">>


\* ------------------------------------------------------- library helpers
\* yt_dlp's base_url: the URL up to and including its last "/".
get_base_url(u) ==
    IF u.slash THEN u
    ELSE [u EXCEPT !.segs = SubSeq(u.segs, 1, Len(u.segs) - 1), !.slash = TRUE]

\* yt_dlp's urljoin: a path that is already "scheme://..." is returned as it
\* is, a site-relative path replaces the path of the base.
urljoin(base, path) ==
    IF path.host # "" THEN path
    ELSE [scheme |-> base.scheme, host |-> base.host,
          segs |-> path.segs, slash |-> path.slash]

RECURSIVE orderedSetFrom(_, _)
orderedSetFrom(seq, seen) ==
    IF seq = <<>> THEN <<>>
    ELSE IF Head(seq) \in seen THEN orderedSetFrom(Tail(seq), seen)
    ELSE <<Head(seq)>> \o orderedSetFrom(Tail(seq), seen \cup {Head(seq)})

\* orderedSet without the deduplication.
orderedSetKeepAll(seq) == seq

RECURSIVE orderedSetKeepLast(_)
\* orderedSet keeping the last occurrence of every element instead of the first.
orderedSetKeepLast(seq) ==
    IF seq = <<>> THEN <<>>
    ELSE IF \E i \in 2..Len(seq) : seq[i] = Head(seq)
         THEN orderedSetKeepLast(Tail(seq))
         ELSE <<Head(seq)>> \o orderedSetKeepLast(Tail(seq))

\* yt_dlp's orderedSet: the first occurrence of every element, in order.
orderedSet(seq) == orderedSetFrom(seq, {})

\* InfoExtractor.url_result.
url_result(ie, u) == [type |-> "url", ie_key |-> ie, url |-> u]

\* InfoExtractor.playlist_result.
playlist_result(es, pid, title) ==
    [type |-> "playlist", entries |-> es, id |-> pid, title |-> title]

RECURSIVE LStrip(_)
LStrip(cs) == IF cs # <<>> /\ Head(cs) = " " THEN LStrip(Tail(cs)) ELSE cs

RECURSIVE RStrip(_)
RStrip(cs) ==
    IF cs # <<>> /\ cs[Len(cs)] = " " THEN RStrip(SubSeq(cs, 1, Len(cs) - 1)) ELSE cs

\* str.strip()
Strip(cs) == RStrip(LStrip(cs))

\* ----------------------------------------------------------- URL patterns
IsHttp(u) == u.scheme \in {"http", "https"}

\* re.match(ArdAudioThekAudioIE._VALID_URL, url): a prefix match of
\* https?://www\.ardaudiothek\.de/episode/urn:ard:episode:(?P<id>[^/]+)/
ValidUrlAudio(u) ==
    /\ IsHttp(u) /\ u.host = SiteHost
    /\ Len(u.segs) >= 2
    /\ u.segs[1] = "episode"
    /\ u.segs[2] \in DOMAIN UrnEpisodeId
    /\ (Len(u.segs) > 2 \/ u.slash)

\* re.match(OldArdAudioThekAudioIE._VALID_URL, url): a prefix match of
\* https?://www\.ardaudiothek\.de/episode/(?P<playlist_display_id>[^/]+)(?:/[^?]*)?/(?P<id>\d+)/
ValidUrlOldAudio(u) ==
    /\ IsHttp(u) /\ u.host = SiteHost
    /\ Len(u.segs) >= 3
    /\ u.segs[1] = "episode"
    /\ \E j \in 3..Len(u.segs) :
          /\ u.segs[j] \in DigitSegs
          /\ (j < Len(u.segs) \/ u.slash)

\* The playlist_display_id group of OldArdAudioThekAudioIE._VALID_URL.
OldPlaylistDisplayId(u) == u.segs[2]

\* ArdAudioThekPlaylistIE._VALID_URL (matched to the end of the URL):
\* https?://www\.ardaudiothek\.de/sendung/(?P<playlist_display_id>[^/]+)/(?P<playlist_id>\d+)/?$
ValidUrlPlaylist(u) ==
    /\ IsHttp(u) /\ u.host = SiteHost
    /\ Len(u.segs) = 3
    /\ u.segs[1] = "sendung"
    /\ u.segs[3] \in DigitSegs


\* ------------------------------------------------------------- datetime
\* The number a sequence of decimal digits writes.
RECURSIVE DigitsValue(_)
DigitsValue(ds) ==
    IF ds = <<>> THEN 0 ELSE 10 * DigitsValue(SubSeq(ds, 1, Len(ds) - 1)) + ds[Len(ds)]

IsLeap(y) == y % 4 = 0 /\ (y % 100 # 0 \/ y % 400 = 0)

DaysInMonth(y, m) ==
    IF m = 2 THEN (IF IsLeap(y) THEN 29 ELSE 28)
    ELSE IF m \in {4, 6, 9, 11} THEN 30 ELSE 31

\* datetime.fromisoformat of "YYYY-MM-DDTHH:MM:SS[.fff]+HH:MM", given by its
\* digits: the datetime, or ok = FALSE where Python raises ValueError.
fromisoformat(str) ==
    LET year == DigitsValue(SubSeq(str.date, 1, 4))
        month == DigitsValue(SubSeq(str.date, 5, 6))
        day == DigitsValue(SubSeq(str.date, 7, 8))
        hour == DigitsValue(SubSeq(str.time, 1, 2))
        minute == DigitsValue(SubSeq(str.time, 3, 4))
        second == DigitsValue(SubSeq(str.time, 5, 6))
        offh == DigitsValue(SubSeq(str.off, 1, 2))
        offm == DigitsValue(SubSeq(str.off, 3, 4))
    IN  IF /\ year >= 1 /\ month \in 1..12
           /\ day >= 1 /\ day <= DaysInMonth(year, month)
           /\ hour < 24 /\ minute < 60 /\ second < 60
           /\ offh < 24 /\ offm < 60
        THEN [ok |-> TRUE, year |-> year, month |-> month, day |-> day,
              hour |-> hour, minute |-> minute, second |-> second,
              microsecond |-> IF str.frac = <<>> THEN 0
                              ELSE 1000 * DigitsValue(str.frac),
              utcoffset |-> (IF str.sign = "-" THEN -1 ELSE 1)
                              * (offh * 3600 + offm * 60)]
        ELSE [ok |-> FALSE]

\* datetime.strftime('%Y%m%d'): the date fields of the datetime itself, the
\* year on four digits, month and day on two.
strftime_Ymd(dt) ==
    <<(dt.year \div 1000) % 10, (dt.year \div 100) % 10, (dt.year \div 10) % 10,
      dt.year % 10, dt.month \div 10, dt.month % 10, dt.day \div 10, dt.day % 10>>

RECURSIVE DaysBeforeMonth(_, _)
\* datetime._days_before_month
DaysBeforeMonth(y, m) ==
    IF m = 1 THEN 0 ELSE DaysBeforeMonth(y, m - 1) + DaysInMonth(y, m - 1)

\* datetime._ymd2ord: the proleptic Gregorian ordinal, 0001-01-01 being day 1.
Ymd2Ord(y, m, d) ==
    (y - 1) * 365 + (y - 1) \div 4 - (y - 1) \div 100 + (y - 1) \div 400
        + DaysBeforeMonth(y, m) + d

\* self - _EPOCH of an aware datetime: a timedelta of whole seconds and
\* 0..999999 microseconds on top of them.
SecondsSinceEpoch(dt) ==
    (Ymd2Ord(dt.year, dt.month, dt.day) - Ymd2Ord(1970, 1, 1)) * 86400
        + dt.hour * 3600 + dt.minute * 60 + dt.second - dt.utcoffset

\* int(total_seconds) of seconds + microseconds / 10^6: int() cuts toward
\* zero, so a negative number of seconds with a fraction on top moves up.
IntOfSeconds(seconds, microseconds) ==
    IF seconds < 0 /\ microseconds > 0 THEN seconds + 1 ELSE seconds

\* int(timestamp.timestamp()) with the datetime's UTC offset left out.
int_timestamp_no_offset(dt) ==
    IntOfSeconds(SecondsSinceEpoch([dt EXCEPT !.utcoffset = 0]), dt.microsecond)

\* int(timestamp.timestamp()) of line 36.
int_timestamp(dt) == IntOfSeconds(SecondsSinceEpoch(dt), dt.microsecond)

\* -------------------------------------------------------- episode parser
\* Line 27 accepting every encoding format.
EncodingAcceptedAny(encoding_format) == TRUE

\* The check of line 27.
EncodingAccepted(encoding_format) == encoding_format = "audio/mp3"

\* _get_info_dict_for_ld_data_dict: the info dict it returns or the
\* exception it raises.
_get_info_dict_for_ld_data_dict(ld_data_dict) ==
    LET timestamp == fromisoformat(ld_data_dict.datePublished)
        encoding_format == ld_data_dict.encodingFormat
    IN  IF ~timestamp.ok THEN [raised |-> "ValueError", value |-> NoneDict]
        ELSE IF ~EncodingAccepted(encoding_format)
        THEN [raised |-> "AssertionError", value |-> NoneDict]
        ELSE [raised |-> None,
              value |->
                [ext |-> "mp3",
                 id |-> ld_data_dict.identifier,
                 series |-> ld_data_dict.partOfSeries.name,
                 title |-> ld_data_dict.name,
                 description |-> ld_data_dict.description,
                 upload_date |-> strftime_Ymd(timestamp),
                 timestamp |-> int_timestamp(timestamp),
                 duration |-> ld_data_dict.timeRequired,
                 language |-> ld_data_dict.inLanguage,
                 thumbnail |-> ld_data_dict.image,
                 formats |-> <<[url |-> ld_data_dict.associatedMedia.contentUrl,
                                ext |-> "mp3",
                                vcodec |-> "none",
                                acodec |-> "mp3"]>>]]

\* ---------------------------------------------------- linked-data inputs
TwoDigits(n) == <<n \div 10, n % 10>>

FourDigits(n) == <<(n \div 1000) % 10, (n \div 100) % 10, (n \div 10) % 10, n % 10>>

\* The text "YYYY-MM-DDTHH:MM:SS[.fff](+|-)HH:MM" by its digits.
IsoString(y, m, d, hms, frac, sign, offh, offm) ==
    [date |-> FourDigits(y) \o TwoDigits(m) \o TwoDigits(d),
     time |-> TwoDigits(hms[1]) \o TwoDigits(hms[2]) \o TwoDigits(hms[3]),
     frac |-> frac, sign |-> sign,
     off |-> TwoDigits(offh) \o TwoDigits(offm)]

\* '2025-01-25T19:04:00+01:00', the datePublished of the test.
ExampleDatePublished ==
    [date |-> <<2, 0, 2, 5, 0, 1, 2, 5>>, time |-> <<1, 9, 0, 4, 0, 0>>,
     frac |-> <<>>, sign |-> "+", off |-> <<0, 1, 0, 0>>]

\* The datePublished texts tried: days at the ends of months and years,
\* 29 February (not a date in three of the four years), times at both ends
\* of the day, with and without milliseconds, east and west of Greenwich.
DatePublishedPool ==
    {IsoString(y, md[1], md[2], hms, frac, off[1], off[2], off[3]) :
        y \in {1969, 1970, 2024, 2025},
        md \in {<<1, 1>>, <<1, 25>>, <<2, 29>>, <<12, 31>>},
        hms \in {<<0, 0, 0>>, <<19, 4, 0>>, <<23, 59, 59>>},
        frac \in {<<>>, <<5, 0, 0>>},
        off \in {<<"+", 1, 0>>, <<"-", 5, 30>>, <<"+", 0, 0>>}}

\* EXAMPLE_LD_DATA_DICT of the test, with the fields the parser reads.
LdDataDict(encoding, identifier, published) ==
    [encodingFormat |-> encoding,
     inLanguage |-> "de-DE",
     partOfSeries |-> [name |-> "MausHoerspiel lang"],
     identifier |-> identifier,
     name |-> "Die Amazonas-Detektive",
     description |-> "Kinderhoerspiel, ab 8 Jahren",
     image |-> "https://api.ardmediathek.de/image-service/images/urn:ard:image:82e9c6e947a6e1ad",
     datePublished |-> published,
     timeRequired |-> 3175,
     associatedMedia |-> [contentUrl |-> "https://wdrmedien-a.akamaihd.net/3240584_60895358.mp3"]]

LdDataDicts ==
    {LdDataDict(e, i, p) :
        e \in {"audio/mp3", "audio/mpeg", "audio/aac"},
        i \in {"14107801", "urn:ard:episode:a"},
        p \in DatePublishedPool}

\* ------------------------------------------------------ listing accessors
_get_nodes_from_nextjs_dict(nextjs_dict) ==
    nextjs_dict.props.pageProps.initialData.data.result.items.nodes

_get_total_count_from_nextjs_dict(nextjs_dict) ==
    nextjs_dict.props.pageProps.initialData.data.result.numberOfElements

_get_paths_from_nextjs_dict(nextjs_dict) ==
    LET nodes == _get_nodes_from_nextjs_dict(nextjs_dict)
    IN  [i \in 1..Len(nodes) |-> nodes[i].path]

_get_nodes_from_graphql_response(graphql_response) ==
    graphql_response.data.result.items.nodes

_get_paths_from_graphql_response(graphql_response) ==
    LET nodes == _get_nodes_from_graphql_response(graphql_response)
    IN  [i \in 1..Len(nodes) |-> nodes[i].path]

\* ------------------------------------------------------------ the inputs
Node(p) == [path |-> p]

NodesOf(ps) == [i \in 1..Len(ps) |-> Node(ps[i])]

\* The initial-state payload of a listing page.
NextjsDict(ps, n) ==
    [props |-> [pageProps |-> [initialData |-> [data |-> [result |->
        [items |-> [nodes |-> NodesOf(ps)], numberOfElements |-> n]]]]]]

\* A query-API response body that is valid JSON.
GraphqlJson(ps) ==
    [data |-> [result |-> [items |-> [nodes |-> NodesOf(ps)]]]]

\* The listing pages the extractor may be given.
Webpages ==
    {[h1 |-> PageHeading, nextjs |-> NextjsDict(ps, n)] :
        ps \in SeqsUpTo(PathPool, MaxEmbedded), n \in 0..MaxTotal}

\* What the query API may answer: text that is JSON of the expected shape
\* (with any page of nodes, the empty one included) or text that is not JSON.
RemoteResponses ==
    {[json |-> TRUE, body |-> GraphqlJson(ps)] : ps \in SeqsUpTo(PathPool, MaxPage)}
        \cup {[json |-> FALSE, body |-> NoneDict]}

\* ---------------------------------------------------------------- state
VARIABLES
    pc,                   \* where _real_extract is: start, loop, done, failed
    webpage,              \* the downloaded listing page
    playlist_id,
    playlist_display_id,
    playlist_title,
    total_items,
    paths,
    page_size,
    offset,
    calls,                \* the query-API calls issued so far, with the answer
    entries,              \* list(...) of the generator, once it has run
    result,               \* what _real_extract returns
    error,                \* the exception _real_extract raises
    ep_pc,                \* the episode parser: idle, call, returned, raised
    ld,                   \* the linked-data dictionary it is given
    info_dict,            \* the info dict it returns
    raised                \* the exception it raises

playlist_vars == <<pc, webpage, playlist_id, playlist_display_id, playlist_title,
                   total_items, paths, page_size, offset, calls, entries, result,
                   error>>

episode_vars == <<ep_pc, ld, info_dict, raised>>

vars == <<playlist_vars, episode_vars>>

\* ------------------------------------------------- resolution of the paths
\* ArdAudioThekAudioIE.ie_key()
AudioIeKey == "ArdAudioThekAudio"

\* Line 205 with OldArdAudioThekAudioIE._VALID_URL in place of
\* ArdAudioThekAudioIE._VALID_URL.
EntryPatternOld(u) == ValidUrlOldAudio(u)

\* The pattern line 205 matches each URL against.
EntryPattern(u) == ValidUrlAudio(u)

RECURSIVE IterEntries(_, _)
\* The loop of _iter_entry_dict_from_paths over the deduplicated paths.
\* Lines 209-213 only write log lines (the pattern of line 205 has no
\* playlist_display_id group) and change nothing that is yielded.
IterEntries(uniq, base) ==
    IF uniq = <<>> THEN <<>>
    ELSE LET u == urljoin(base, Head(uniq))
         IN  IF ~EntryPattern(u) THEN IterEntries(Tail(uniq), base)
             ELSE <<url_result(AudioIeKey, u)>> \o IterEntries(Tail(uniq), base)

\* _iter_entry_dict_from_paths without the "continue" of line 208.
IterAllPaths(ps, pdid, base) ==
    LET uniq == orderedSet(ps)
    IN  [i \in 1..Len(uniq) |-> url_result(AudioIeKey, urljoin(base, uniq[i]))]

_iter_entry_dict_from_paths(ps, pdid, base) ==
    IterEntries(orderedSet(ps), base)

\* ------------------------------------------------------------ pagination
\* Line 250 with "<=" in place of "<".
LoopCondLe(ps, total) == Len(ps) <= total

\* The loop condition of line 250.
LoopCond(ps, total) == Len(ps) < total

\* The variables of the query of line 254.
QueryVariables(pid, off, size) == [id |-> pid, offset |-> off, count |-> size]

\* Line 262 advancing by the number of paths received.
NextOffsetByLen(off, size, page) == off + Len(page)

\* Line 262.
NextOffset(off, size, page) == off + size

\* A recorded call: the variables sent and what came back (the kind of
\* answer and the paths of its nodes).
Call(resp) ==
    [variables |-> QueryVariables(playlist_id, offset, page_size),
     response |-> IF ~resp.json THEN "malformed"
                  ELSE IF _get_paths_from_graphql_response(resp.body) = <<>>
                       THEN "empty" ELSE "page",
     paths |-> IF resp.json THEN _get_paths_from_graphql_response(resp.body)
               ELSE <<>>]

\* Lines 263-267 and 290-297: the generator is drained into a list and the
\* playlist result is returned.
Finish ==
    LET es == _iter_entry_dict_from_paths(paths, playlist_display_id,
                                          get_base_url(PlaylistUrl))
    IN  /\ entries' = es
        /\ result' = playlist_result(es, playlist_id, playlist_title)
        /\ pc' = "done"

\* No episode is being parsed.
EpisodeIdle ==
    /\ ep_pc = "idle"
    /\ ld = NoneDict
    /\ info_dict = NoneDict
    /\ raised = None

Init ==
    /\ EpisodeIdle
    /\ pc = "start"
    /\ webpage \in Webpages
    /\ playlist_id = None
    /\ playlist_display_id = None
    /\ playlist_title = None
    /\ total_items = 0
    /\ paths = <<>>
    /\ page_size = 0
    /\ offset = 0
    /\ calls = <<>>
    /\ entries = <<>>
    /\ result = NoneDict
    /\ error = NoneDict

\* Lines 270-282 and 242-249.
Begin ==
    /\ pc = "start"
    /\ ValidUrlPlaylist(PlaylistUrl)
    /\ playlist_display_id' = PlaylistUrl.segs[2]
    /\ playlist_id' = PlaylistUrl.segs[3]
    /\ playlist_title' = Strip(webpage.h1)
    /\ total_items' = _get_total_count_from_nextjs_dict(webpage.nextjs)
    /\ paths' = _get_paths_from_nextjs_dict(webpage.nextjs)
    /\ page_size' = Len(paths')
    /\ offset' = page_size'
    /\ pc' = "loop"
    /\ UNCHANGED <<webpage, calls, entries, result, error>>
    /\ UNCHANGED episode_vars

\* One iteration of the loop whose page has nodes (lines 250-262).
FetchPage ==
    /\ pc = "loop"
    /\ LoopCond(paths, total_items)
    /\ \E resp \in RemoteResponses :
          /\ resp.json
          /\ _get_paths_from_graphql_response(resp.body) # <<>>
          /\ calls' = Append(calls, Call(resp))
          /\ paths' = paths \o _get_paths_from_graphql_response(resp.body)
          /\ offset' = NextOffset(offset, page_size,
                                  _get_paths_from_graphql_response(resp.body))
    /\ UNCHANGED <<pc, webpage, playlist_id, playlist_display_id, playlist_title,
                   total_items, page_size, entries, result, error>>
    /\ UNCHANGED episode_vars

\* FetchEmpty with "continue" in place of the "break" of line 260.
FetchEmptyContinue ==
    /\ pc = "loop"
    /\ LoopCond(paths, total_items)
    /\ \E resp \in RemoteResponses :
          /\ resp.json
          /\ _get_paths_from_graphql_response(resp.body) = <<>>
          /\ calls' = Append(calls, Call(resp))
    /\ UNCHANGED <<pc, webpage, playlist_id, playlist_display_id, playlist_title,
                   total_items, paths, page_size, offset, entries, result, error>>
    /\ UNCHANGED episode_vars

\* The iteration whose page is empty: break (lines 258-260), then the rest
\* of the extraction.
FetchEmpty ==
    /\ pc = "loop"
    /\ LoopCond(paths, total_items)
    /\ \E resp \in RemoteResponses :
          /\ resp.json
          /\ _get_paths_from_graphql_response(resp.body) = <<>>
          /\ calls' = Append(calls, Call(resp))
    /\ Finish
    /\ UNCHANGED <<webpage, playlist_id, playlist_display_id, playlist_title,
                   total_items, paths, page_size, offset, error>>
    /\ UNCHANGED episode_vars

\* FetchMalformed with the ValueError swallowed and the loop left as for an
\* empty page.
FetchMalformedSwallow ==
    /\ pc = "loop"
    /\ LoopCond(paths, total_items)
    /\ \E resp \in RemoteResponses :
          /\ ~resp.json
          /\ calls' = Append(calls, Call(resp))
    /\ Finish
    /\ UNCHANGED <<webpage, playlist_id, playlist_display_id, playlist_title,
                   total_items, paths, page_size, offset, error>>
    /\ UNCHANGED episode_vars

\* The iteration whose response is not JSON: json.loads raises ValueError
\* and _fetch_graphql_response raises ExtractorError from it (lines 185-193).
FetchMalformed ==
    /\ pc = "loop"
    /\ LoopCond(paths, total_items)
    /\ \E resp \in RemoteResponses :
          /\ ~resp.json
          /\ calls' = Append(calls, Call(resp))
    /\ error' = [type |-> "ExtractorError", msg |-> "Failed to parse JSON",
                 cause |-> "ValueError"]
    /\ pc' = "failed"
    /\ UNCHANGED <<webpage, playlist_id, playlist_display_id, playlist_title,
                   total_items, paths, page_size, offset, entries, result>>
    /\ UNCHANGED episode_vars

\* The loop condition is false: the rest of the extraction.
LoopExit ==
    /\ pc = "loop"
    /\ ~LoopCond(paths, total_items)
    /\ Finish
    /\ UNCHANGED <<webpage, playlist_id, playlist_display_id, playlist_title,
                   total_items, paths, page_size, offset, calls, error>>
    /\ UNCHANGED episode_vars

Next ==
    \/ Begin
    \/ FetchPage
    \/ FetchEmpty
    \/ FetchMalformed
    \/ LoopExit

Spec == Init /\ [][Next]_vars

\* ------------------------------------------------ the episode parser alone
\* No listing is being extracted.
PlaylistIdle ==
    /\ pc = "idle"
    /\ webpage = NoneDict
    /\ playlist_id = None
    /\ playlist_display_id = None
    /\ playlist_title = None
    /\ total_items = 0
    /\ paths = <<>>
    /\ page_size = 0
    /\ offset = 0
    /\ calls = <<>>
    /\ entries = <<>>
    /\ result = NoneDict
    /\ error = NoneDict

InitEpisode ==
    /\ PlaylistIdle
    /\ ep_pc = "call"
    /\ ld \in LdDataDicts
    /\ info_dict = NoneDict
    /\ raised = None

\* The call _get_info_dict_for_ld_data_dict(ld) returns.
ParseReturns ==
    /\ ep_pc = "call"
    /\ _get_info_dict_for_ld_data_dict(ld).raised = None
    /\ info_dict' = _get_info_dict_for_ld_data_dict(ld).value
    /\ ep_pc' = "returned"
    /\ UNCHANGED <<ld, raised>>
    /\ UNCHANGED playlist_vars

\* The call _get_info_dict_for_ld_data_dict(ld) raises.
ParseRaises ==
    /\ ep_pc = "call"
    /\ _get_info_dict_for_ld_data_dict(ld).raised # None
    /\ raised' = _get_info_dict_for_ld_data_dict(ld).raised
    /\ ep_pc' = "raised"
    /\ UNCHANGED <<ld, info_dict>>
    /\ UNCHANGED playlist_vars

NextEpisode ==
    \/ ParseReturns
    \/ ParseRaises

SpecEpisode == InitEpisode /\ [][NextEpisode]_vars


\* ------------------------------------------------- vocabulary of the claims
\* The number of paths embedded in the initial-state payload.
EmbeddedCount == Len(_get_nodes_from_nextjs_dict(webpage.nextjs))

\* The remote-declared total item count of the initial-state payload.
DeclaredTotal == _get_total_count_from_nextjs_dict(webpage.nextjs)

RECURSIVE PagesUpTo(_)
\* The paths of the pages the first k calls returned, in fetch order.
PagesUpTo(k) == IF k = 0 THEN <<>> ELSE PagesUpTo(k - 1) \o calls[k].paths

\* Embedded paths first, then each page of the first k calls.
CollectedUpTo(k) == _get_paths_from_nextjs_dict(webpage.nextjs) \o PagesUpTo(k)

\* The whole accumulated path list.
Collected == CollectedUpTo(Len(calls))

\* The absolute URL of a listing path.
AbsoluteUrl(p) == urljoin(get_base_url(PlaylistUrl), p)

\* Positions of ps that hold the first occurrence of a path.
FirstSeen(ps) == {i \in 1..Len(ps) : \A j \in 1..(i - 1) : ps[j] # ps[i]}

\* Positions of ps that hold the first occurrence of a path whose absolute
\* URL matches ArdAudioThekAudioIE._VALID_URL.
EpisodePositions(ps) == {i \in FirstSeen(ps) : ValidUrlAudio(AbsoluteUrl(ps[i]))}

\* The k-th smallest element of a set of positions.
KthOf(S, k) == CHOOSE i \in S : Cardinality({j \in S : j < i}) = k - 1

\* es holds one deferred reference per position of EpisodePositions(ps), in
\* the order of the positions.
IsResolutionOf(es, ps) ==
    LET pos == EpisodePositions(ps)
    IN  /\ Len(es) = Cardinality(pos)
        /\ \A k \in 1..Len(es) :
              es[k] = [type |-> "url", ie_key |-> "ArdAudioThekAudio",
                       url |-> AbsoluteUrl(ps[KthOf(pos, k)])]

\* ------------------------------------------------------------------ C1
\* C1: the k-th query-API call carries offset = k * pageSize and
\* count = pageSize, pageSize being the number of embedded paths, whatever
\* the earlier pages returned.
C1_KthCallOffset ==
    \A k \in 1..Len(calls) :
        /\ calls[k].variables.offset = k * EmbeddedCount
        /\ calls[k].variables.count = EmbeddedCount

\* Two embedded paths, a first page of one path only, and a second call:
\* its offset is 4, not 3.
C1_Witness ==
    /\ Len(calls) = 2
    /\ EmbeddedCount = 2
    /\ Len(calls[1].paths) = 1
    /\ calls[2].variables = [id |-> "36", offset |-> 4, count |-> 2]

\* ------------------------------------------------------------------ C2
\* C2: an empty page ends the pagination at once: it is the last call, made
\* before the declared total was reached, no error is raised, and the
\* references of the paths collected so far are returned.
C2_EmptyPageStops ==
    \A k \in 1..Len(calls) :
        calls[k].response = "empty" =>
            /\ k = Len(calls)
            /\ pc = "done"
            /\ error = NoneDict
            /\ paths = Collected
            /\ Len(Collected) < DeclaredTotal
            /\ result # NoneDict
            /\ result.entries = entries
            /\ IsResolutionOf(result.entries, CollectedUpTo(k - 1))

\* One embedded path, one page of one path, then an empty page under a
\* declared total of 3: two references are returned.
C2_Witness ==
    /\ pc = "done"
    /\ DeclaredTotal = 3
    /\ Len(calls) = 2
    /\ calls[1].response = "page"
    /\ calls[2].response = "empty"
    /\ Len(result.entries) = 2

\* ------------------------------------------------------------------ C3
\* C3 as stated: the number of references returned never exceeds the
\* declared total.
C3_NeverMoreThanTotal ==
    pc = "done" => Len(result.entries) <= DeclaredTotal

\* C3, amended: the number of references never exceeds the number of
\* distinct accumulated paths; the accumulated list is the embedded one when
\* no call was made, and was shorter than the declared total before its last
\* page was appended otherwise. So the count stays within the declared total
\* whenever the embedded count does and no page holds more paths than were
\* still missing when it was requested.
C3_BoundedByCollected ==
    pc = "done" =>
        LET all == Collected
        IN  /\ Len(result.entries) <= Cardinality({all[i] : i \in 1..Len(all)})
            /\ calls = <<>> => Len(all) = EmbeddedCount
            /\ calls # <<>> =>
                  Len(all) <= DeclaredTotal - 1 + Len(calls[Len(calls)].paths)
            /\ (/\ EmbeddedCount <= DeclaredTotal
                /\ \A k \in 1..Len(calls) :
                      Len(calls[k].paths) <= DeclaredTotal - Len(CollectedUpTo(k - 1)))
                  => Len(result.entries) <= DeclaredTotal

\* One embedded path, a declared total of two, one call whose page holds the
\* missing path: exactly the declared total of references is returned.
C3_Witness ==
    /\ pc = "done"
    /\ EmbeddedCount = 1
    /\ DeclaredTotal = 2
    /\ Len(calls) = 1
    /\ Len(calls[1].paths) = 1
    /\ Len(result.entries) = 2

\* ------------------------------------------------------------------ C4
\* C4: a payload whose embedded node list already has the declared total
\* length causes no query-API call; a call is only ever issued when the
\* accumulated path list is strictly shorter than the declared total.
C4_CallsOnlyBelowTotal ==
    /\ EmbeddedCount = DeclaredTotal => calls = <<>>
    /\ \A k \in 1..Len(calls) : Len(CollectedUpTo(k - 1)) < DeclaredTotal

\* Two embedded paths, a declared total of two, extraction finished without
\* a call.
C4_Witness ==
    /\ pc = "done"
    /\ EmbeddedCount = 2
    /\ DeclaredTotal = 2
    /\ calls = <<>>

\* ------------------------------------------------------------------ C5
\* C5: the accumulated paths (embedded first, then the pages in fetch order)
\* are deduplicated before resolution: a path yields at most one reference,
\* placed by its first occurrence, and the references are in first-seen
\* order of their paths.
C5_FirstSeenOrder ==
    pc = "done" => IsResolutionOf(result.entries, Collected)

\* An episode path that is embedded and comes again in a later page, behind
\* another episode path: the references are in the embedded order.
C5_Witness ==
    /\ pc = "done"
    /\ Len(calls) = 1
    /\ Collected = <<PathUrnLegacy, PathA, PathUrnLegacy>>
    /\ Len(result.entries) = 2
    /\ result.entries[1].url = AbsoluteUrl(PathUrnLegacy)

\* ------------------------------------------------------------------ C6
\* C6: a deduplicated path whose absolute URL does not match the
\* single-episode pattern yields no reference and no error, every other
\* deduplicated path yields exactly one: excluded + returned = deduplicated.
C6_ExcludedPlusReturned ==
    pc = "done" =>
        LET all == Collected
            uniq == {all[i] : i \in 1..Len(all)}
            excluded == {p \in uniq : ~ValidUrlAudio(AbsoluteUrl(p))}
        IN  /\ error = NoneDict
            /\ Cardinality(excluded) + Len(result.entries) = Cardinality(uniq)
            /\ \A p \in excluded :
                  \A k \in 1..Len(result.entries) :
                      result.entries[k].url # AbsoluteUrl(p)
            /\ \A p \in uniq \ excluded :
                  Cardinality({k \in 1..Len(result.entries) :
                                  result.entries[k].url = AbsoluteUrl(p)})
                    = Cardinality({q \in uniq \ excluded :
                                      AbsoluteUrl(q) = AbsoluteUrl(p)})

\* A listing with a non-matching path between two episode paths.
C6_Witness ==
    /\ pc = "done"
    /\ Collected = <<PathA, PathLegacyOther, PathUrnLegacy>>
    /\ Len(result.entries) = 2

\* ------------------------------------------------------------------ C7
\* C7: a query-API response that is not JSON aborts the extraction with an
\* ExtractorError caused by the parse error: it is the last call, and neither
\* references nor a playlist result are returned.
C7_MalformedAborts ==
    \A k \in 1..Len(calls) :
        calls[k].response = "malformed" =>
            /\ k = Len(calls)
            /\ pc = "failed"
            /\ error # NoneDict
            /\ error.type = "ExtractorError"
            /\ error.cause = "ValueError"
            /\ entries = <<>>
            /\ result = NoneDict

\* The second call is answered with text that is not JSON, after embedded
\* paths and a first page were collected.
C7_Witness ==
    /\ pc = "failed"
    /\ Len(calls) = 2
    /\ calls[1].response = "page"
    /\ calls[2].response = "malformed"
    /\ EmbeddedCount > 0
    /\ ValidUrlAudio(AbsoluteUrl(paths[1]))

\* ------------------------------------------------------------------ C10
\* C10 as stated: a path whose absolute URL matches the legacy pattern
\* episode/{playlistDisplayId}/.../{id}/ with a playlist-display-id other
\* than the current playlist's is still emitted as a reference.
C10_CrossPlaylistLegacyEmitted ==
    pc = "done" =>
        LET all == Collected
        IN  \A i \in 1..Len(all) :
                (/\ ValidUrlOldAudio(AbsoluteUrl(all[i]))
                 /\ OldPlaylistDisplayId(AbsoluteUrl(all[i])) # playlist_display_id)
                  => \E k \in 1..Len(result.entries) :
                        result.entries[k].url = AbsoluteUrl(all[i])

\* C10, amended: a path is emitted as a reference exactly when its absolute
\* URL matches the urn pattern episode/urn:ard:episode:{id}/, which carries
\* no playlist-display-id; a legacy-form path with another playlist's
\* display id is emitted only if it matches the urn pattern as well.
C10_EmittedIffUrnPattern ==
    pc = "done" =>
        LET all == Collected
        IN  \A i \in 1..Len(all) :
                (\E k \in 1..Len(result.entries) :
                    result.entries[k] = [type |-> "url", ie_key |-> "ArdAudioThekAudio",
                                         url |-> AbsoluteUrl(all[i])])
                  <=> ValidUrlAudio(AbsoluteUrl(all[i]))

\* A listing with two legacy-form paths of other display ids: the one that
\* also matches the urn pattern is emitted, the other is not.
C10_Witness ==
    /\ pc = "done"
    /\ Collected = <<PathLegacyOther, PathUrnLegacy>>
    /\ ValidUrlOldAudio(AbsoluteUrl(PathLegacyOther))
    /\ OldPlaylistDisplayId(AbsoluteUrl(PathLegacyOther)) # playlist_display_id
    /\ ValidUrlOldAudio(AbsoluteUrl(PathUrnLegacy))
    /\ OldPlaylistDisplayId(AbsoluteUrl(PathUrnLegacy)) # playlist_display_id
    /\ Len(result.entries) = 1
    /\ result.entries[1].url = AbsoluteUrl(PathUrnLegacy)


\* ------------------------------------------------------------------ C8
\* The fields of a datePublished text, read off its digits.
PublishedYear == DigitsValue(SubSeq(ld.datePublished.date, 1, 4))
PublishedMonth == DigitsValue(SubSeq(ld.datePublished.date, 5, 6))
PublishedDay == DigitsValue(SubSeq(ld.datePublished.date, 7, 8))
PublishedSecondOfDay ==
    DigitsValue(SubSeq(ld.datePublished.time, 1, 2)) * 3600
        + DigitsValue(SubSeq(ld.datePublished.time, 3, 4)) * 60
        + DigitsValue(SubSeq(ld.datePublished.time, 5, 6))
PublishedOffsetSeconds ==
    (IF ld.datePublished.sign = "-" THEN -1 ELSE 1)
        * (DigitsValue(SubSeq(ld.datePublished.off, 1, 2)) * 3600
            + DigitsValue(SubSeq(ld.datePublished.off, 3, 4)) * 60)

\* datePublished names a day of the calendar.
PublishedIsCalendarDate ==
    \/ PublishedDay \in 1..28
    \/ PublishedDay \in 29..30 /\ PublishedMonth # 2
    \/ PublishedDay = 31 /\ PublishedMonth \in {1, 3, 5, 7, 8, 10, 12}
    \/ /\ PublishedDay = 29 /\ PublishedMonth = 2
       /\ PublishedYear % 4 = 0
       /\ (PublishedYear % 100 # 0 \/ PublishedYear % 400 = 0)

\* The civil date <<year, month, day>> of a day number counted from
\* 1970-01-01 (the inverse of the ordinal the parser computes).
CivilFromDays(days) ==
    LET z == days + 719468
        era == z \div 146097
        doe == z - era * 146097
        yoe == (doe - doe \div 1460 + doe \div 36524 - doe \div 146096) \div 365
        doy == doe - (365 * yoe + yoe \div 4 - yoe \div 100)
        mp == (5 * doy + 2) \div 153
        d == doy - (153 * mp + 2) \div 5 + 1
        m == IF mp < 10 THEN mp + 3 ELSE mp - 9
    IN  <<yoe + era * 400 + (IF m <= 2 THEN 1 ELSE 0), m, d>>

\* s seconds after the epoch, the clocks of datePublished's own offset show
\* the date and time datePublished writes.
IsEpochSecondOfPublished(s) ==
    LET local == s + PublishedOffsetSeconds
    IN  /\ CivilFromDays(local \div 86400)
            = <<PublishedYear, PublishedMonth, PublishedDay>>
        /\ local % 86400 = PublishedSecondOfDay

\* C8: for a well-formed dictionary with encodingFormat 'audio/mp3' the
\* parser returns a record whose fields are the source fields verbatim, whose
\* upload_date is the date of datePublished in its own offset as YYYYMMDD,
\* whose timestamp is the whole epoch seconds of datePublished (cut toward
\* zero) and whose formats hold one mp3 entry with the content URL.
C8_ParsedRecord ==
    (ep_pc # "call" /\ ld.encodingFormat = "audio/mp3" /\ PublishedIsCalendarDate) =>
        /\ ep_pc = "returned"
        /\ raised = None
        /\ info_dict.id = ld.identifier
        /\ info_dict.series = ld.partOfSeries.name
        /\ info_dict.title = ld.name
        /\ info_dict.description = ld.description
        /\ info_dict.duration = ld.timeRequired
        /\ info_dict.language = ld.inLanguage
        /\ info_dict.thumbnail = ld.image
        /\ info_dict.upload_date = ld.datePublished.date
        /\ \E s \in {info_dict.timestamp - 1, info_dict.timestamp,
                     info_dict.timestamp + 1} :
              /\ IsEpochSecondOfPublished(s)
              /\ info_dict.timestamp =
                    (IF s >= 0 \/ ld.datePublished.frac = <<>> THEN s ELSE s + 1)
        /\ info_dict.formats = <<[url |-> ld.associatedMedia.contentUrl,
                                  ext |-> "mp3", vcodec |-> "none",
                                  acodec |-> "mp3"]>>
        /\ ld.datePublished = ExampleDatePublished =>
              /\ info_dict.upload_date = <<2, 0, 2, 5, 0, 1, 2, 5>>
              /\ info_dict.timestamp = 1737828240

\* The dictionary of the test has been parsed.
C8_Witness ==
    /\ ep_pc = "returned"
    /\ ld.encodingFormat = "audio/mp3"
    /\ ld.identifier = "14107801"
    /\ ld.datePublished = ExampleDatePublished
    /\ info_dict.timestamp = 1737828240

\* ------------------------------------------------------------------ C9
\* C9 as stated: whatever the other fields hold, an encodingFormat other
\* than 'audio/mp3' makes the parser raise AssertionError and return nothing.
C9_AlwaysAssertionError ==
    (ep_pc # "call" /\ ld.encodingFormat # "audio/mp3") =>
        /\ ep_pc = "raised"
        /\ raised = "AssertionError"
        /\ info_dict = NoneDict

\* C9, amended: with an encodingFormat other than 'audio/mp3' the parser
\* never returns a record; it raises AssertionError when datePublished
\* parses, and the ValueError of the date parser, which runs first, when it
\* does not.
C9_AssertionErrorIfDateParses ==
    (ep_pc # "call" /\ ld.encodingFormat # "audio/mp3") =>
        /\ ep_pc = "raised"
        /\ info_dict = NoneDict
        /\ PublishedIsCalendarDate => raised = "AssertionError"
        /\ ~PublishedIsCalendarDate => raised = "ValueError"

\* 'audio/mpeg' with the datePublished of the test: AssertionError.
C9_Witness ==
    /\ ep_pc = "raised"
    /\ ld.encodingFormat = "audio/mpeg"
    /\ ld.datePublished = ExampleDatePublished
    /\ raised = "AssertionError"

=============================================================================
